---- MODULE Spec2Model ----
(***************************************************************************)
(* DiscordWebhookHandler (src/discord_logging/__init__.py): a logging      *)
(* handler that queues log records and posts them, batched, to a           *)
(* rate-limited webhook.                                                   *)
(*                                                                         *)
(* Time is counted in whole seconds of the monotonic clock.  A text is a   *)
(* sequence of characters; NL is the newline character.                    *)
(***************************************************************************)
EXTENDS Integers, Sequences, FiniteSets, TLC

\* ------------------------------------------------------------- bounds
MaxTime    == 6     \* the monotonic clock is observed up to this value
MaxRecords == 3     \* log records handed to emit in one run
MaxPosts   == 3     \* POSTs the endpoint answers inside one post_webhook call

\* --------------------------------------------------- handler configuration
interval == 2       \* self.interval (emit_interval), seconds
timeout  == 5       \* self.timeout, seconds

\* ------------------------------------------------------ program constants
InlineLimit  == 1994   \* longest content sent as a normal message
DefaultReset == 2      \* delay used when x-ratelimit-reset-after is absent
StatusOK     == 204
Status429    == 429
Status502    == 502

NL == "\n"

\* The message texts the formatter produces for the records of a run.
Messages == { <<>>, <<"a">> }

\* A LogRecord: an identity and the text self.format(record) yields for it.
LogRecord(id, msg) == [id |-> id, msg |-> msg]

NoRecord == [id |-> 0, msg |-> <<>>]

\* self.format(record): the formatter is an external collaborator; the
\* record carries the text it produces.
format(record) == record.msg

\* ------------------------------------------------------------ the endpoint
\* The x-ratelimit-reset-after header of a response: absent, present with a
\* text float() rejects ("junk"), or present with a number of seconds.
Header(kind, val) == [kind |-> kind, val |-> val]

NoHeader == Header("absent", 0)

\* One answer of requests.post.  exc = TRUE stands for requests.ConnectionError
\* or requests.Timeout raised by the call; otherwise status and header are
\* those of the response.  dur is the time the POST itself took.
Response(exc, status, header, dur) ==
    [exc |-> exc, status |-> status, header |-> header, dur |-> dur]

\* The answers the endpoint gives in the runs of the handler: rate limited
\* with an advised delay, accepted, not found, or no answer at all.
Retryables ==
    { Response(FALSE, Status429, Header("num", 2), 0) }

Finals ==
    { Response(FALSE, StatusOK, NoHeader, 0),
      Response(FALSE, 404, NoHeader, 0),
      Response(TRUE, 0, NoHeader, 1) }

Responses == Retryables \cup Finals

\* The answers one post_webhook call can observe: every answer but the last
\* is one after which the loop may go on.
Scripts ==
    { <<>> } \cup
    UNION { { pre \o <<r>> : pre \in [1..n -> Retryables], r \in Responses }
            : n \in 0..(MaxPosts - 1) }

\* ------------------------------------------------------------- str.join
RECURSIVE join(_)
join(texts) ==
    IF Len(texts) = 0 THEN <<>>
    ELSE IF Len(texts) = 1 THEN texts[1]
    ELSE texts[1] \o <<NL>> \o join(Tail(texts))

formatted(records) == [i \in 1..Len(records) |-> format(records[i])]


\* ---------------------------------------------------------- post_webhook
\* What one post_webhook call did: result is "True" or "False" (returned),
\* "HTTPError" or "ValueError" (raised), or "pending" when the script holds
\* no answer for a POST the call issues; posts counts the POSTs issued,
\* slept the seconds spent in sleep(), elapsed the seconds from entry to
\* exit, shape the kwargs built ("data" or "files", "none" if none was).
Outcome(result, posts, slept, elapsed, shape) ==
    [result |-> result, posts |-> posts, slept |-> slept,
     elapsed |-> elapsed, shape |-> shape]

\* A limit that sends the longest normal message as a file.
kwargs_strict(content) == IF Len(content) < InlineLimit THEN "data" ELSE "files"

\* lines 44-49: normal message up to the limit, file otherwise
kwargs(content) == IF Len(content) <= InlineLimit THEN "data" ELSE "files"

\* A delay that never reads the header.
sleep_duration_default(resp) == DefaultReset

\* line 66: float(resp.headers.get("x-ratelimit-reset-after", 2))
sleep_duration(resp) ==
    IF resp.header.kind = "absent" THEN DefaultReset ELSE resp.header.val

\* A loop that goes on after every status but 204.
transient_any(status) == TRUE

\* line 60: the statuses after which the loop goes on
transient(status) == status \in {Status429, Status502}

\* A budget test that leaves the coming sleep out.
over_budget_now(elapsed, duration) == elapsed > timeout

\* A budget test that leaves the time already spent out.
over_budget_sleep(elapsed, duration) == duration > timeout

\* line 69: the sleep would end after the timeout
over_budget(elapsed, duration) == elapsed + duration > timeout

\* lines 57-78: the retry loop, entered with script[i] as resp, elapsed
\* seconds after start_time was taken and slept seconds spent sleeping.
RECURSIVE retry_loop(_, _, _, _, _)
retry_loop(script, i, elapsed, slept, shape) ==
    LET resp == script[i] IN
    IF resp.status = StatusOK
    THEN Outcome("True", i, slept, elapsed, shape)
    ELSE IF ~transient(resp.status)
    THEN Outcome("HTTPError", i, slept, elapsed, shape)
    ELSE IF resp.header.kind = "junk"
    THEN Outcome("ValueError", i, slept, elapsed, shape)
    ELSE IF over_budget(elapsed, sleep_duration(resp))
    THEN Outcome("False", i, slept, elapsed, shape)
    ELSE IF i = Len(script)
    THEN Outcome("pending", i, slept + sleep_duration(resp),
                 elapsed + sleep_duration(resp), shape)
    ELSE IF script[i + 1].exc
    THEN Outcome("False", i + 1, slept + sleep_duration(resp),
                 elapsed + sleep_duration(resp) + script[i + 1].dur, shape)
    ELSE retry_loop(script, i + 1,
                    elapsed + sleep_duration(resp) + script[i + 1].dur,
                    slept + sleep_duration(resp), shape)

\* A first POST whose connection error is not caught.
post_webhook_uncaught(content, script) ==
    IF content = <<>>
    THEN Outcome("True", 0, 0, 0, "none")
    ELSE IF Len(script) = 0
    THEN Outcome("pending", 0, 0, 0, kwargs(content))
    ELSE IF script[1].exc
    THEN Outcome("ConnectionError", 1, 0, script[1].dur, kwargs(content))
    ELSE retry_loop(script, 1, script[1].dur, 0, kwargs(content))

\* lines 26-78
post_webhook(content, script) ==
    IF content = <<>>
    THEN Outcome("True", 0, 0, 0, "none")
    ELSE IF Len(script) = 0
    THEN Outcome("pending", 0, 0, 0, kwargs(content))
    ELSE IF script[1].exc
    THEN Outcome("False", 1, 0, script[1].dur, kwargs(content))
    ELSE retry_loop(script, 1, script[1].dur, 0, kwargs(content))

raised(res) == res.result \in {"HTTPError", "ValueError"}

\* -------------------------------------------------------- emit and flush
\* A throttle that lets go one second early.
throttled_early(last, now) == last + interval > now + 1

\* A throttle that leaves the interval out.
throttled_never(last, now) == last > now

\* line 93: the record is only queued while the interval has not elapsed
throttled(last, now) == last + interval > now

\* The content without the newline between the queue and the record.
emit_content_glued(q, record) == join(formatted(q)) \o format(record)

\* lines 97-98: the content emit posts
emit_content(q, record) == join(formatted(q)) \o <<NL>> \o format(record)

\* A successful post that leaves the queue as it is.
emit_queue_keeps(q, record, success) == Append(q, record)

\* A failed post that forgets the record it was called with.
emit_queue_forgets(q, record, success) == IF success THEN <<>> ELSE q

\* lines 101-104: the queue emit leaves after post_webhook returned
emit_queue(q, record, success) == IF success THEN <<>> ELSE Append(q, record)

\* The content with a newline after the queue, as emit builds it.
flush_content_newline(q) == join(formatted(q)) \o <<NL>>

\* line 108: the content flush posts
flush_content(q) == join(formatted(q))

\* A flush that clears the queue whatever post_webhook returned.
flush_queue_clears(q, success) == <<>>

\* A flush that never clears the queue.
flush_queue_keeps(q, success) == q

\* lines 111-112: the queue flush leaves after post_webhook returned
flush_queue(q, success) == IF success THEN <<>> ELSE q

ids(records) == { records[i].id : i \in 1..Len(records) }

VARIABLES
    queue,      \* self.queue
    last_emit,  \* self.last_emit
    clock,      \* the value monotonic() returns
    next_id,    \* identity of the next record the host hands to emit
    delivered,  \* ids of the records in a content post_webhook returned True for
    call,       \* the last handler call: its input and what it did
    hist,       \* when emit last called post_webhook (-1: not yet)
    tx,         \* one post_webhook call on its own: its input and outcome
    conc        \* emit and flush run by two threads: where each thread is

vars == <<queue, last_emit, clock, next_id, delivered, call, hist, tx, conc>>

\* op is "emit" or "flush"; at is the clock when the call began; branch is
\* "append" (line 94) or "post"; content is what was handed to post_webhook,
\* result and posts what it did with it.
Call(op, at, branch, record, content, res) ==
    [op |-> op, at |-> at, branch |-> branch, record |-> record,
     content |-> content, result |-> res.result, posts |-> res.posts]

NoOutcome == Outcome("none", 0, 0, 0, "none")

\* lines 9-24: the handler after construction
Fresh ==
    /\ queue = <<>>
    /\ last_emit = 0
    /\ clock = 0
    /\ next_id = 1
    /\ delivered = {}
    /\ hist = [post_at |-> -1]
    /\ call = Call("none", 0, "none", NoRecord, <<>>, NoOutcome)

\* No post_webhook call is looked at on its own; no thread is running.
NoTx == [pc |-> "none", content |-> <<>>, script |-> <<>>, out |-> NoOutcome]

NoConc == [pc |-> "none"]

Init == Fresh /\ tx = NoTx /\ conc = NoConc

\* Time passes between two handler calls.
Tick ==
    /\ clock < MaxTime
    /\ clock' = clock + 1
    /\ UNCHANGED <<queue, last_emit, next_id, delivered, call, hist>>

\* lines 80-104: emit(record); script is what the endpoint answers.
emit(record, script) ==
    LET now == clock
        content == emit_content(queue, record)
        res == post_webhook(content, script)
    IN
    /\ next_id' = next_id + 1
    /\ IF throttled(last_emit, now)
       THEN /\ script = <<>>
            /\ queue' = Append(queue, record)
            /\ call' = Call("emit", now, "append", record, <<>>, NoOutcome)
            /\ UNCHANGED <<last_emit, clock, delivered, hist>>
       ELSE /\ res.result # "pending"
            /\ res.posts = Len(script)
            /\ clock + res.elapsed <= MaxTime
            /\ clock' = clock + res.elapsed
            /\ IF raised(res)
               THEN UNCHANGED <<queue, last_emit>>
               ELSE /\ last_emit' = now
                    /\ queue' = emit_queue(queue, record, res.result = "True")
            /\ delivered' =
                 IF res.result = "True"
                 THEN delivered \cup ids(queue) \cup {record.id}
                 ELSE delivered
            /\ call' = Call("emit", now, "post", record, content, res)
            /\ hist' = [post_at |-> now]

\* lines 106-112: flush(); script is what the endpoint answers.
flush(script) ==
    LET content == flush_content(queue)
        res == post_webhook(content, script)
    IN
    /\ res.result # "pending"
    /\ res.posts = Len(script)
    /\ clock + res.elapsed <= MaxTime
    /\ clock' = clock + res.elapsed
    /\ IF raised(res)
       THEN UNCHANGED queue
       ELSE queue' = flush_queue(queue, res.result = "True")
    /\ delivered' =
         IF res.result = "True"
         THEN delivered \cup ids(queue)
         ELSE delivered
    /\ call' = Call("flush", clock, "post", NoRecord, content, res)
    /\ UNCHANGED <<last_emit, next_id, hist>>

Submit ==
    /\ next_id <= MaxRecords
    /\ \E msg \in Messages, script \in Scripts :
         emit(LogRecord(next_id, msg), script)

ForceFlush == \E script \in Scripts : flush(script)

Next ==
    \/ Tick /\ UNCHANGED <<tx, conc>>
    \/ Submit /\ UNCHANGED <<tx, conc>>
    \/ ForceFlush /\ UNCHANGED <<tx, conc>>

Spec == Init /\ [][Next]_vars

\* ------------------------------------------- post_webhook called on its own
\* The answers looked at when post_webhook is studied alone: both transient
\* statuses, the header absent, unparsable, 0, 1 and as long as the whole
\* timeout, POSTs that take no time or one second, and as last answer also
\* 204, 404 and a connection error.
TxHeaders ==
    { NoHeader, Header("junk", 0), Header("num", 0), Header("num", 1),
      Header("num", timeout) }

TxRetryables ==
    { Response(FALSE, Status429, h, d) : h \in TxHeaders, d \in {0, 1} }
    \cup { Response(FALSE, Status502, NoHeader, 0) }

TxFinals ==
    { Response(FALSE, StatusOK, NoHeader, 0),
      Response(FALSE, StatusOK, NoHeader, 1),
      Response(FALSE, 404, NoHeader, 0),
      Response(TRUE, 0, NoHeader, 1) }

TxScripts ==
    { <<>> } \cup
    UNION { { pre \o <<r>> : pre \in [1..n -> TxRetryables],
                             r \in TxRetryables \cup TxFinals }
            : n \in 0..(MaxPosts - 1) }

\* An endpoint that goes on answering 429 or 502, for more POSTs than fit
\* into the timeout when each POST takes a second.
TxEndless ==
    [1..(timeout + 2) ->
        { Response(FALSE, Status429, Header("num", 0), 1),
          Response(FALSE, Status429, Header("num", 1), 1),
          Response(FALSE, Status502, NoHeader, 1) }]

\* A text of n characters.
Text(n) == [i \in 1..n |-> "a"]

\* Contents around the limit of a normal message.
TxLongContents ==
    { Text(InlineLimit - 1), Text(InlineLimit), Text(InlineLimit + 1) }

TxInputs ==
    ({ <<>>, Text(1), <<NL, "a">> } \X (TxScripts \cup TxEndless))
    \cup (TxLongContents \X { sc \in TxScripts : Len(sc) <= 1 })

InitTx ==
    /\ Fresh
    /\ conc = NoConc
    /\ \E in \in TxInputs :
         tx = [pc |-> "call", content |-> in[1], script |-> in[2],
               out |-> NoOutcome]

\* lines 26-78: post_webhook(content) runs against the answers of tx.script.
Transmit ==
    /\ tx.pc = "call"
    /\ tx' = [tx EXCEPT !.pc = "done",
                        !.out = post_webhook(tx.content, tx.script)]
    /\ UNCHANGED <<queue, last_emit, clock, next_id, delivered, call, hist,
                   conc>>

NextTx == Transmit

SpecTx == InitTx /\ [][NextTx]_vars

\* ------------------------------------------ emit and flush in two threads
\* Two threads of the host run concurrently: thread 1 calls emit, thread 2
\* calls flush.  conc.locking tells whether
\* the host serializes the calls with a lock held for the whole call;
\* conc.holder is the thread holding it (0: nobody).  A thread inside a call
\* is at "posting" (the content is built, post_webhook has not returned),
\* "posted" (post_webhook returned, line 100 is next) or "written" (lines
\* 101-104 or 111-112 are next); snap is the queue it built the content
\* from, result what post_webhook returned.  conc.removed collects the
\* records a clear removed from the queue, conc.lost those among them that
\* were not in the content whose success led to that clear.
Submitter == 1

Flusher == 2

Threads == {Submitter, Flusher}

IdleThread ==
    [pc |-> "idle", op |-> "none", now |-> 0, record |-> NoRecord,
     snap |-> <<>>, result |-> "none"]

InitConc ==
    /\ Fresh
    /\ tx = NoTx
    /\ \E locking \in BOOLEAN :
         conc = [pc |-> "run", locking |-> locking, holder |-> 0,
                 removed |-> {}, lost |-> {},
                 threads |-> [t \in Threads |-> IdleThread]]

\* The answers of the endpoint to a call that POSTs once.
OnePost == { script \in Scripts : Len(script) <= 1 }

MayEnter(t) ==
    /\ conc.threads[t].pc = "idle"
    /\ conc.locking => conc.holder = 0

Entered(t) == IF conc.locking THEN t ELSE conc.holder

Left(t) == IF conc.locking THEN 0 ELSE conc.holder

\* lines 91-97: emit reads the clock, then appends and returns, or builds
\* the content from the queue.
ConcEmitBegin(t, record) ==
    /\ MayEnter(t)
    /\ next_id <= MaxRecords
    /\ next_id' = next_id + 1
    /\ IF throttled(last_emit, clock)
       THEN /\ queue' = Append(queue, record)
            /\ conc' = [conc EXCEPT
                 !.threads[t] = IdleThread]
       ELSE /\ queue' = queue
            /\ conc' = [conc EXCEPT
                 !.holder = Entered(t),
                 !.threads[t] = [pc |-> "posting", op |-> "emit",
                                 now |-> clock, record |-> record,
                                 snap |-> queue, result |-> "none"]]
    /\ UNCHANGED <<last_emit, clock, delivered, call, hist, tx>>

\* line 108: flush builds the content from the queue.
ConcFlushBegin(t) ==
    /\ MayEnter(t)
    /\ conc' = [conc EXCEPT
         !.holder = Entered(t),
         !.threads[t] = [pc |-> "posting", op |-> "flush", now |-> clock,
                         record |-> NoRecord, snap |-> queue,
                         result |-> "none"]]
    /\ UNCHANGED <<queue, last_emit, clock, next_id, delivered, call, hist,
                   tx>>

\* The content thread t built, and the records it carries.
ConcContent(th) ==
    IF th.op = "emit" THEN emit_content(th.snap, th.record)
    ELSE flush_content(th.snap)

ConcCarried(th) ==
    IF th.op = "emit" THEN ids(th.snap) \cup {th.record.id}
    ELSE ids(th.snap)

\* lines 98, 109: post_webhook returns, or raises and ends the call.
ConcPost(t, script) ==
    LET th == conc.threads[t]
        res == post_webhook(ConcContent(th), script)
    IN
    /\ th.pc = "posting"
    /\ res.result # "pending"
    /\ res.posts = Len(script)
    /\ IF raised(res)
       THEN conc' = [conc EXCEPT !.holder = Left(t),
                                 !.threads[t] = IdleThread]
       ELSE conc' = [conc EXCEPT
              !.threads[t] = [th EXCEPT !.pc = "posted",
                                        !.result = res.result]]
    /\ delivered' =
         IF res.result = "True" THEN delivered \cup ConcCarried(th)
         ELSE delivered
    /\ UNCHANGED <<queue, last_emit, clock, next_id, call, hist, tx>>

\* line 100: emit writes last_emit; flush has no such line.
ConcWrite(t) ==
    LET th == conc.threads[t] IN
    /\ th.pc = "posted"
    /\ last_emit' = IF th.op = "emit" THEN th.now ELSE last_emit
    /\ conc' = [conc EXCEPT !.threads[t] = [th EXCEPT !.pc = "written"]]
    /\ UNCHANGED <<queue, clock, next_id, delivered, call, hist, tx>>

\* lines 101-104, 111-112: clear the queue or append the record; the call
\* returns.
ConcUpdate(t) ==
    LET th == conc.threads[t]
        success == th.result = "True"
        after == IF th.op = "emit" THEN emit_queue(queue, th.record, success)
                 ELSE flush_queue(queue, success)
        removed == ids(queue) \ ids(after)
        sent == IF success THEN ConcCarried(th) ELSE {}
    IN
    /\ th.pc = "written"
    /\ queue' = after
    /\ conc' = [conc EXCEPT
         !.holder = Left(t),
         !.removed = conc.removed \cup removed,
         !.lost = conc.lost \cup (removed \ sent),
         !.threads[t] = IdleThread]
    /\ UNCHANGED <<last_emit, clock, next_id, delivered, call, hist, tx>>

ConcTick ==
    /\ clock < MaxTime
    /\ clock' = clock + 1
    /\ UNCHANGED <<queue, last_emit, next_id, delivered, call, hist, tx, conc>>

ConcSubmit == ConcEmitBegin(Submitter, LogRecord(next_id, <<"a">>))

ConcForceFlush == ConcFlushBegin(Flusher)

ConcPosted == \E t \in Threads, script \in OnePost : ConcPost(t, script)

ConcWritten == \E t \in Threads : ConcWrite(t)

ConcUpdated == \E t \in Threads : ConcUpdate(t)

NextConc ==
    \/ ConcTick
    \/ ConcSubmit
    \/ ConcForceFlush
    \/ ConcPosted
    \/ ConcWritten
    \/ ConcUpdated

SpecConc == InitConc /\ [][NextConc]_vars

\* ================================================================ claims
\* A step that is a call of emit, and one that is a call of flush.
EmitStep == next_id' = next_id + 1

FlushStep == call' # call /\ call'.op = "flush"

\* The call ended by an exception leaving post_webhook.
returned_none(c) == c.result \in {"HTTPError", "ValueError"}

\* The records handed to emit so far.
submitted == 1..(next_id - 1)

\* C1: every record ever handed to emit is still in the queue or was part
\* of a content post_webhook returned True for.
C1_NoEntryDropped ==
    \A id \in submitted : id \in ids(queue) \/ id \in delivered

\* C2: when emit posts and post_webhook returns False, the queue afterwards
\* is the queue before with exactly the new record appended.
C2_FailedPostRequeues ==
    [][(EmitStep /\ call'.branch = "post" /\ call'.result = "False")
         => queue' = Append(queue, call'.record)]_vars

\* C2 happens: a post that exhausted the timeout budget left two records.
C2_Witness ==
    /\ call.op = "emit" /\ call.branch = "post" /\ call.result = "False"
    /\ call.posts = 3
    /\ Len(queue) = 2

\* C3: when post_webhook returns True inside emit or flush, the queue is
\* empty after that call.
C3_SuccessEmptiesQueue ==
    (call.branch = "post" /\ call.result = "True") => queue = <<>>

\* C3 happens: flush delivered a content of several records after a retry.
C3_Witness ==
    /\ call.op = "flush" /\ call.result = "True" /\ call.posts = 2
    /\ Len(call.content) >= 3
    /\ queue = <<>>

\* C4 as stated: emit called once the interval has elapsed posts, and the
\* content is the queued texts and the new text, joined by newlines.
C4_JoinedWithNewEntry ==
    [][(EmitStep /\ clock >= last_emit + interval)
         => /\ call'.branch = "post"
            /\ call'.content =
                 join(formatted(Append(queue, call'.record)))]_vars

\* C4 amended: emit called once the interval has elapsed posts; with
\* records queued the content is all texts joined by newlines, with an
\* empty queue it is a newline followed by the new text.
C4_ContentOfEmit ==
    [][(EmitStep /\ clock >= last_emit + interval)
         => /\ call'.branch = "post"
            /\ call'.posts >= 1
            /\ call'.content =
                 IF queue = <<>>
                 THEN <<NL>> \o format(call'.record)
                 ELSE join(formatted(Append(queue, call'.record)))]_vars

\* C4 happens: emit, called with an empty queue once the interval had
\* elapsed, posted a newline followed by the text of the record.
C4_Witness ==
    /\ call.op = "emit" /\ call.branch = "post"
    /\ call.at >= interval
    /\ call.posts >= 1
    /\ call.content = <<NL, "a">>

\* C5: emit called while now < last_emit + interval appends the record and
\* does nothing else.
C5_ThrottledEmitOnlyAppends ==
    [][(EmitStep /\ clock < last_emit + interval)
         => /\ queue' = Append(queue, call'.record)
            /\ call'.branch = "append"
            /\ call'.posts = 0
            /\ last_emit' = last_emit
            /\ clock' = clock
            /\ delivered' = delivered]_vars

\* C5 happens: a record was appended to a queue less than interval after a
\* post.
C5_Witness ==
    /\ call.op = "emit" /\ call.branch = "append"
    /\ last_emit > 0
    /\ call.at = last_emit + 1
    /\ Len(queue) = 2

\* C6 as stated: in a run of emit calls none of which raised, an emit
\* called less than interval after the previous emit issues no POST and
\* makes the queue one record longer.
C6_CloseCallsNeverPost ==
    [][(EmitStep /\ call.op = "emit" /\ ~returned_none(call)
          /\ clock - call.at < interval)
         => /\ call'.posts = 0
            /\ call'.branch = "append"
            /\ Len(queue') = Len(queue) + 1]_vars

\* C6 amended: in a run of emit calls, every call made less than interval
\* after last_emit issues no POST and makes the queue one record longer.
C6_CallsWithinIntervalOfLastEmit ==
    [][(EmitStep /\ call.op = "emit" /\ clock - last_emit < interval)
         => /\ call'.posts = 0
            /\ call'.branch = "append"
            /\ Len(queue') = Len(queue) + 1]_vars

\* C6 happens: three emit calls in a row, the last two only appending.
C6_Witness ==
    /\ call.op = "emit" /\ call.branch = "append"
    /\ next_id = 4
    /\ Len(queue) = 2
    /\ delivered = {1}

\* C7: two post_webhook calls made by emit are at least interval apart.
C7_PostsAreThrottled ==
    [][(EmitStep /\ call'.branch = "post" /\ hist.post_at >= 0)
         => clock - hist.post_at >= interval]_vars

\* C8: last_emit is set by every call, emit or flush, in which post_webhook
\* issued a POST and returned True or False, and is left alone by a call
\* that only appends.
C8_LastEmitSetOncePerAttempt ==
    [][/\ (call' # call /\ call'.posts > 0 /\ ~returned_none(call'))
            => last_emit' = call'.at
       /\ (call' # call /\ call'.branch = "append")
            => last_emit' = last_emit]_vars

\* C9: flush does what emit does from line 97 on with an empty new text:
\* the same content, the same queue afterwards, last_emit set to now.
C9_FlushIsEmitWithoutRecord ==
    [][FlushStep
         => /\ call'.content = join(formatted(queue)) \o <<NL>>
            /\ queue' = IF call'.result = "True" THEN <<>> ELSE queue
            /\ last_emit' = call'.at]_vars

\* C10: flush on an empty queue has empty content, issues no POST, counts
\* as success and changes nothing.
C10_FlushOfEmptyQueueIsNoOp ==
    [][(FlushStep /\ queue = <<>>)
         => /\ call'.content = <<>>
            /\ call'.posts = 0
            /\ call'.result = "True"
            /\ queue' = <<>>
            /\ last_emit' = last_emit
            /\ clock' = clock
            /\ delivered' = delivered]_vars

\* C10 happens: flush was called before any record was handed to emit.
C10_Witness ==
    /\ call.op = "flush" /\ call.at = 1
    /\ next_id = 1
    /\ call.content = <<>> /\ call.posts = 0 /\ call.result = "True"

\* ----------------------------------------- claims about post_webhook alone
\* The call of tx has ended, and it had something to post.
TxDone == tx.pc = "done" /\ tx.content # <<>>

\* The delay an answer advises: its header, or the default without one.
Advised(resp) ==
    IF resp.header.kind = "num" THEN resp.header.val ELSE DefaultReset

RECURSIVE SumDelays(_, _)
SumDelays(script, k) ==
    IF k = 0 THEN 0 ELSE Advised(script[k]) + SumDelays(script, k - 1)

RECURSIVE SumPosts(_, _)
SumPosts(script, k) ==
    IF k = 0 THEN 0 ELSE script[k].dur + SumPosts(script, k - 1)

\* Seconds since the call began when the answer to POST k arrives, every
\* earlier answer having been followed by the sleep it advised.
Arrival(script, k) == SumPosts(script, k) + SumDelays(script, k - 1)

\* Answer k is 429 or 502, with a header float() accepts or none.
Retryable(script, k) ==
    /\ ~script[k].exc
    /\ script[k].status \in {Status429, Status502}
    /\ script[k].header.kind # "junk"

\* Every answer before answer k was retryable and left room for its delay.
Reached(script, k) ==
    \A j \in 1..(k - 1) :
        /\ Retryable(script, j)
        /\ Arrival(script, j) + Advised(script[j]) <= timeout

\* C11: an answer whose status is neither 204 nor 429 nor 502 makes
\* post_webhook raise HTTPError at once, with no sleep and no POST after it,
\* whether it is the first answer or comes after retries.
C11_FatalStatusRaisesAtOnce ==
    TxDone =>
      \A k \in 1..Len(tx.script) :
        (/\ Reached(tx.script, k)
         /\ ~tx.script[k].exc
         /\ tx.script[k].status \notin {StatusOK, Status429, Status502})
        => /\ tx.out.result = "HTTPError"
           /\ tx.out.posts = k
           /\ tx.out.slept = SumDelays(tx.script, k - 1)

\* C11 happens: a 404 after two retries.
C11_Witness ==
    /\ TxDone
    /\ Len(tx.script) = 3 /\ tx.script[3].status = 404
    /\ tx.out.result = "HTTPError" /\ tx.out.posts = 3

\* C12: a connection error or timeout of any POST makes post_webhook return
\* False at once: no exception, no sleep and no POST after it.
C12_NetworkErrorReturnsFalse ==
    TxDone =>
      \A k \in 1..Len(tx.script) :
        (Reached(tx.script, k) /\ tx.script[k].exc)
        => /\ tx.out.result = "False"
           /\ tx.out.posts = k
           /\ tx.out.slept = SumDelays(tx.script, k - 1)
           /\ tx.out.elapsed = Arrival(tx.script, k)

\* C12 happens: the connection fails on the retry that follows a sleep.
C12_Witness ==
    /\ TxDone
    /\ Len(tx.script) = 2 /\ tx.script[2].exc
    /\ tx.out.result = "False" /\ tx.out.posts = 2 /\ tx.out.slept > 0

\* C13: k answers 429 or 502, each leaving room for its delay, and then a
\* 204: k + 1 POSTs of the same shape, the advised delay slept before each
\* retry, True returned.
C13_RetriesThenSuccess ==
    TxDone =>
      \A k \in 1..Len(tx.script) :
        (/\ Reached(tx.script, k)
         /\ ~tx.script[k].exc
         /\ tx.script[k].status = StatusOK)
        => /\ tx.out.result = "True"
           /\ tx.out.posts = k
           /\ tx.out.slept = SumDelays(tx.script, k - 1)
           /\ tx.out.shape = IF Len(tx.content) > InlineLimit
                             THEN "files" ELSE "data"

\* C13 happens: 429, 429, 204 with an advised delay of 1 and timeout 5.
C13_Witness ==
    /\ TxDone
    /\ timeout = 5
    /\ Len(tx.script) = 3
    /\ \A j \in 1..2 : /\ tx.script[j].status = Status429
                       /\ tx.script[j].header = Header("num", 1)
    /\ tx.out.result = "True" /\ tx.out.posts = 3 /\ tx.out.slept = 2

\* C14: a 429 or 502 whose delay would end after the timeout makes
\* post_webhook return False without sleeping and without another POST; the
\* time slept in one call never exceeds the timeout.
C14_BudgetExhaustionReturnsFalse ==
    TxDone =>
      /\ tx.out.slept <= timeout
      /\ \A k \in 1..Len(tx.script) :
           (/\ Reached(tx.script, k)
            /\ Retryable(tx.script, k)
            /\ Arrival(tx.script, k) + Advised(tx.script[k]) > timeout)
           => /\ tx.out.result = "False"
              /\ tx.out.posts = k
              /\ tx.out.slept = SumDelays(tx.script, k - 1)
              /\ tx.out.elapsed = Arrival(tx.script, k)

\* C14 happens: the second 429 no longer leaves room for its delay.
C14_Witness ==
    /\ TxDone
    /\ Len(tx.script) >= 2
    /\ Retryable(tx.script, 2)
    /\ tx.out.result = "False" /\ tx.out.posts = 2
    /\ tx.out.slept > 0
    /\ tx.out.elapsed + Advised(tx.script[2]) > timeout

\* C15: content of up to 1994 characters is posted as a normal message,
\* longer content as a file, whatever the endpoint answers.
C15_ShapeByLength ==
    (TxDone /\ tx.out.posts >= 1) =>
      /\ Len(tx.content) <= InlineLimit => tx.out.shape = "data"
      /\ Len(tx.content) >= InlineLimit + 1 => tx.out.shape = "files"

\* C15 happens: one character more than the limit went out as a file.
C15_Witness ==
    /\ TxDone
    /\ Len(tx.content) = InlineLimit + 1
    /\ tx.out.posts = 1 /\ tx.out.result = "True"
    /\ tx.out.shape = "files"

\* C16: from its start to its return a post_webhook call takes at most
\* timeout seconds, POSTs and sleeps together.
C16_CallLastsAtMostTimeout ==
    (tx.pc = "done" /\ tx.out.result # "pending")
      => tx.out.elapsed <= timeout

\* C17: the delay after a 429 or 502 is the header's value, or the default
\* when the header is missing or no number, and post_webhook never raises
\* over the header.
C17_DelayFromHeaderOrDefault ==
    TxDone =>
      /\ tx.out.result # "ValueError"
      /\ \A k \in 2..Len(tx.script) :
           (tx.out.posts = k /\ tx.out.result # "pending")
           => tx.out.slept = SumDelays(tx.script, k - 1)

\* C18: against an endpoint that answers 429 or 502 without end, each POST
\* taking at least a second and each delay being 0 or more, post_webhook
\* ends by returning False, after at most timeout + 1 POSTs.
C18_EndlessRetriesEnd ==
    (TxDone /\ tx.script \in TxEndless)
      => /\ tx.out.result = "False"
         /\ tx.out.posts <= timeout + 1

\* C18 happens: every answer advised a delay of 0 and the call ended.
C18_Witness ==
    /\ TxDone
    /\ tx.script \in TxEndless
    /\ \A j \in 1..Len(tx.script) : tx.script[j].header = Header("num", 0)
    /\ tx.out.result = "False" /\ tx.out.posts = timeout + 1

\* ------------------------------------------------- claims about the queue
\* C19: the queue holds only records that were handed to emit and were in
\* no content post_webhook returned True for, each at most once, in the
\* order in which they were handed to emit.
C19_QueueHoldsUnsentInOrder ==
    /\ ids(queue) \subseteq submitted \ delivered
    /\ \A i, j \in 1..Len(queue) : i < j => queue[i].id < queue[j].id

\* C19 happens: after a delivery, a failed post left two records queued.
C19_Witness ==
    /\ delivered = {1}
    /\ Len(queue) = 2
    /\ call.op = "emit" /\ call.result = "False"

\* ------------------------------------------------ claims about two threads
\* C20 as stated: with no lock around emit and flush, every record a clear
\* removes from the queue was in the content whose success led to the clear.
C20_NoLossWithoutLock == ~conc.locking => conc.lost = {}

\* C20 amended: with a lock held for the whole of each emit and flush call,
\* every record a clear removes from the queue was in the content whose
\* success led to the clear.
C20_NoLossUnderLock == conc.locking => conc.lost = {}

\* C20 happens: under the lock a flush, then an emit, each delivered its
\* content and cleared a queue that held a record.
C20_Witness ==
    /\ conc.locking
    /\ conc.removed = {1, 2}
    /\ delivered = {1, 2, 3}
    /\ queue = <<>>

====
